---- MODULE Spec2Model ----
(***************************************************************************)
(* Model of the device agent in src/main.py: the challenge/respond/bind    *)
(* handshake of DeviceManager.authenticate, the poll loop of               *)
(* DeviceManager.run, the dispatcher DeviceManager.handle_action and the   *)
(* KeyboardInterrupt handler of main.                                      *)
(*                                                                         *)
(* The program is one thread.  pc is the line of src/main.py the thread    *)
(* executes next; a pc ending in "w" is a request in flight (the thread is *)
(* blocked inside requests.Session.request).  The server is the            *)
(* environment: every reply it can give is drawn with \E.  A 200 reply is  *)
(* modelled as a JSON object; `has` says whether the field the caller      *)
(* reads is present and `value` is that field's value.                     *)
(***************************************************************************)
EXTENDS Integers, Sequences, FiniteSets, TLC

(* ---------------------------- bounds ----------------------------------- *)
\* number of poll requests explored in one run
MaxPolls == 3

(* ------------------------- program constants --------------------------- *)
DEVICE_ID == "sunshade-01"
PSK == "secretkey"
POLL_TIMEOUT == 5
RETRY_DELAY == 1

\* Python's None
None == "<None>"

\* the timeout keyword of a request: <<>> when the call passes none
\* (requests then waits without bound), <<t>> when it passes timeout=t
NoTimeout == <<>>

(* --------------------- values the server may send ---------------------- *)
Challenges == {"abc123", "", None}
Tokens == {"T1", "T2", "", None}
ChannelIds == {"CH1", "", None}
Messages == {"open", "close", "jump", "OPEN", "", None}
Statuses == {200, 401, 403, 500}

\* replies with a status line: a 200 carries a JSON object, any other
\* status is read only through status_code
Replies(values) ==
    { [kind |-> "response", status |-> 200, has |-> TRUE, value |-> v] : v \in values }
    \cup { [kind |-> "response", status |-> 200, has |-> FALSE, value |-> None] }
    \cup { [kind |-> "response", status |-> s, has |-> FALSE, value |-> None] : s \in Statuses \ {200} }

ConnError == [kind |-> "connerror", status |-> 0, has |-> FALSE, value |-> None]
TimedOut == [kind |-> "timeout", status |-> 0, has |-> FALSE, value |-> None]

\* what session.request can do for a request sent with the given timeout:
\* requests raises Timeout only when a timeout was passed
Transport(values, timeout) ==
    Replies(values) \cup {ConnError} \cup (IF timeout = NoTimeout THEN {} ELSE {TimedOut})

(* ----------------------------- state ----------------------------------- *)
VARIABLES
    pc,          \* line of src/main.py executed next, "done" after exit
    auth_token,  \* DeviceManager.auth_token
    challenge,   \* local of authenticate
    token,       \* local of authenticate
    message,     \* local of run
    requests,    \* every request handed to session.request, in order
    angles,      \* every DeviceController.set_angle argument, in order
    errors,      \* every logger.error message, in order
    exit_code,   \* <<>> while running, <<c>> after the process exited with c
    uncaught,    \* exception type that left main uncaught, None otherwise
    interrupted, \* a KeyboardInterrupt was delivered
    replies,     \* what session.request did for every request, in order
    dispatched,  \* every handle_action argument, in order
    delays       \* number of completed time.sleep(RETRY_DELAY)

vars == <<pc, auth_token, challenge, token, message, requests, angles, errors,
          exit_code, uncaught, interrupted, replies, dispatched, delays>>

(* --------------------------- pure helpers ------------------------------ *)
\* Python truthiness of an Optional[str]
Truthy(v) == v # None /\ v # ""

\* AuthToken built with its two arguments exchanged
AuthToken_swapped(t, c) == [present |-> TRUE, token |-> c, channel_id |-> t]

\* auth_token is Optional[AuthToken]: `present` is FALSE for None
AuthToken(t, c) == [present |-> TRUE, token |-> t, channel_id |-> c]

NoAuthToken == [present |-> FALSE, token |-> None, channel_id |-> None]

\* the digest with key and message exchanged
Signature_swapped(key, msg) == <<"hmac-sha256-hex", msg, key>>

\* hmac.new(key, msg, sha256).hexdigest(), kept symbolic
Signature(key, msg) == <<"hmac-sha256-hex", key, msg>>

Request(op, sig, tok, chan, timeout) ==
    [op |-> op, serial |-> IF op \in {"challenge", "respond"} THEN DEVICE_ID ELSE None,
     challengeResponse |-> sig, token |-> tok, channelId |-> chan, timeout |-> timeout]

\* _make_request rejecting only the statuses from 500 on
MakeRequest_serverErrorsOnly(o, allow_timeout) ==
    IF o.kind = "response"
    THEN IF o.status >= 500
         THEN [exc |-> "DeviceAPIError", has |-> FALSE, value |-> None]
         ELSE [exc |-> None, has |-> o.has, value |-> o.value]
    ELSE IF o.kind = "timeout"
    THEN IF allow_timeout
         THEN [exc |-> "Timeout", has |-> FALSE, value |-> None]
         ELSE [exc |-> "DeviceAPIError", has |-> FALSE, value |-> None]
    ELSE [exc |-> "DeviceAPIError", has |-> FALSE, value |-> None]

\* DeviceAPI._make_request: the exception raised, or the parsed body
MakeRequest(o, allow_timeout) ==
    IF o.kind = "response"
    THEN IF o.status # 200
         THEN [exc |-> "DeviceAPIError", has |-> FALSE, value |-> None]
         ELSE [exc |-> None, has |-> o.has, value |-> o.value]
    ELSE IF o.kind = "timeout"
    THEN IF allow_timeout
         THEN [exc |-> "Timeout", has |-> FALSE, value |-> None]
         ELSE [exc |-> "DeviceAPIError", has |-> FALSE, value |-> None]
    ELSE [exc |-> "DeviceAPIError", has |-> FALSE, value |-> None]

\* response["field"] after _make_request, as in get_challenge,
\* submit_challenge_response and get_channel_id
Subscript(o) ==
    LET r == MakeRequest(o, FALSE)
    IN  IF r.exc # None THEN [exc |-> r.exc, value |-> None]
        ELSE IF ~r.has THEN [exc |-> "KeyError", value |-> None]
        ELSE [exc |-> None, value |-> r.value]

\* poll_channel with allow_timeout left at its default
PollChannel_timeoutFatal(o) ==
    LET r == MakeRequest(o, FALSE)
    IN  IF r.exc # None THEN [exc |-> r.exc, value |-> None]
        ELSE [exc |-> None, value |-> IF r.has THEN r.value ELSE None]

\* poll_channel returning None instead of response.get("message")
PollChannel_noMessage(o) ==
    LET r == MakeRequest(o, TRUE)
    IN  IF r.exc = "Timeout" THEN [exc |-> None, value |-> None]
        ELSE IF r.exc # None THEN [exc |-> r.exc, value |-> None]
        ELSE [exc |-> None, value |-> None]

\* poll_channel with every exception of the request swallowed
PollChannel_swallow(o) ==
    LET r == MakeRequest(o, TRUE)
    IN  IF r.exc # None THEN [exc |-> None, value |-> None]
        ELSE [exc |-> None, value |-> IF r.has THEN r.value ELSE None]

\* DeviceAPI.poll_channel
PollChannel(o) ==
    LET r == MakeRequest(o, TRUE)
    IN  IF r.exc = "Timeout" THEN [exc |-> None, value |-> None]
        ELSE IF r.exc # None THEN [exc |-> r.exc, value |-> None]
        ELSE [exc |-> None, value |-> IF r.has THEN r.value ELSE None]

\* DeviceAction(action): lookup of an enum member by value
DeviceAction(action) ==
    IF action = "open" THEN "OPEN"
    ELSE IF action = "close" THEN "CLOSE"
    ELSE "ValueError"

\* handle_action with the two angles exchanged
HandleAction_swapped(action) ==
    LET device_action == DeviceAction(action)
    IN  IF device_action = "ValueError"
        THEN [angles |-> <<>>, errors |-> <<"Unknown action received">>]
        ELSE IF device_action = "CLOSE"
        THEN [angles |-> <<180>>, errors |-> <<>>]
        ELSE IF device_action = "OPEN"
        THEN [angles |-> <<0>>, errors |-> <<>>]
        ELSE [angles |-> <<>>, errors |-> <<>>]

\* DeviceManager.handle_action: the set_angle calls and logger.error
\* messages it makes; the ValueError is caught inside
HandleAction(action) ==
    LET device_action == DeviceAction(action)
    IN  IF device_action = "ValueError"
        THEN [angles |-> <<>>, errors |-> <<"Unknown action received">>]
        ELSE IF device_action = "CLOSE"
        THEN [angles |-> <<0>>, errors |-> <<>>]
        ELSE IF device_action = "OPEN"
        THEN [angles |-> <<180>>, errors |-> <<>>]
        ELSE [angles |-> <<>>, errors |-> <<>>]

\* the guard at the top of the poll loop
SessionMissing(a) == ~a.present \/ ~Truthy(a.channel_id)

Polls == SelectSeq(requests, LAMBDA r : r.op = "poll")

\* the poll requests answered so far
PollReplies == SelectSeq(replies, LAMBDA r : r.op = "poll")

(* ------------------------------ Init ----------------------------------- *)
Init ==
    /\ pc = "L130"
    /\ auth_token = NoAuthToken
    /\ challenge = None
    /\ token = None
    /\ message = None
    /\ requests = <<>>
    /\ angles = <<>>
    /\ errors = <<>>
    /\ exit_code = <<>>
    /\ uncaught = None
    /\ interrupted = FALSE
    /\ replies = <<>>
    /\ dispatched = <<>>
    /\ delays = 0

(* ----------------------------- actions --------------------------------- *)
\* an exception other than DeviceAPIError and KeyboardInterrupt leaves
\* authenticate, run and main: the interpreter prints the traceback and
\* exits with status 1
Crash(e) ==
    /\ pc' = "done"
    /\ uncaught' = e
    /\ exit_code' = <<1>>

\* run -> authenticate -> get_challenge: the request is sent
GetChallengeSend ==
    /\ pc = "L130"
    /\ requests' = Append(requests, Request("challenge", <<>>, None, None, NoTimeout))
    /\ pc' = "L130w"
    /\ UNCHANGED <<auth_token, challenge, token, message, angles, errors,
                   exit_code, uncaught, interrupted, replies, dispatched, delays>>

\* get_challenge returns or raises
GetChallengeRecv ==
    /\ pc = "L130w"
    /\ \E o \in Transport(Challenges, NoTimeout) :
        LET r == Subscript(o)
        IN  /\ replies' = Append(replies, [op |-> "challenge", reply |-> o])
            /\ \/ /\ r.exc = None
                  /\ challenge' = r.value
                  /\ pc' = "L131"
                  /\ UNCHANGED <<exit_code, uncaught>>
               \/ /\ r.exc = "DeviceAPIError"
                  /\ pc' = "L137"
                  /\ UNCHANGED <<challenge, exit_code, uncaught>>
               \/ /\ r.exc = "KeyError"
                  /\ Crash("KeyError")
                  /\ UNCHANGED challenge
    /\ UNCHANGED <<auth_token, token, message, requests, angles, errors,
                   interrupted, dispatched, delays>>

\* submit_challenge_response: the signature is computed and the request
\* sent; None has no encode()
SubmitSend ==
    /\ pc = "L131"
    /\ \/ /\ challenge # None
          /\ requests' = Append(requests,
                 Request("respond", Signature(PSK, challenge), None, None, NoTimeout))
          /\ pc' = "L131w"
          /\ UNCHANGED <<exit_code, uncaught>>
       \/ /\ challenge = None
          /\ Crash("AttributeError")
          /\ UNCHANGED requests
    /\ UNCHANGED <<auth_token, challenge, token, message, angles, errors,
                   interrupted, replies, dispatched, delays>>

SubmitRecv ==
    /\ pc = "L131w"
    /\ \E o \in Transport(Tokens, NoTimeout) :
        LET r == Subscript(o)
        IN  /\ replies' = Append(replies, [op |-> "respond", reply |-> o])
            /\ \/ /\ r.exc = None
                  /\ token' = r.value
                  /\ pc' = "L132"
                  /\ UNCHANGED <<exit_code, uncaught>>
               \/ /\ r.exc = "DeviceAPIError"
                  /\ pc' = "L137"
                  /\ UNCHANGED <<token, exit_code, uncaught>>
               \/ /\ r.exc = "KeyError"
                  /\ Crash("KeyError")
                  /\ UNCHANGED token
    /\ UNCHANGED <<auth_token, challenge, message, requests, angles, errors,
                   interrupted, dispatched, delays>>

\* get_channel_id(token): the request is sent with the token as bearer
BindSend ==
    /\ pc = "L132"
    /\ requests' = Append(requests, Request("bind", <<>>, token, None, NoTimeout))
    /\ pc' = "L132w"
    /\ UNCHANGED <<auth_token, challenge, token, message, angles, errors,
                   exit_code, uncaught, interrupted, replies, dispatched, delays>>

\* get_channel_id returns: the AuthToken is built, authenticate returns
\* True and run reaches the loop; or it raises
BindRecv ==
    /\ pc = "L132w"
    /\ \E o \in Transport(ChannelIds, NoTimeout) :
        LET r == Subscript(o)
        IN  /\ replies' = Append(replies, [op |-> "bind", reply |-> o])
            /\ \/ /\ r.exc = None
                  /\ auth_token' = AuthToken(token, r.value)
                  /\ pc' = "L164"
                  /\ UNCHANGED <<exit_code, uncaught>>
               \/ /\ r.exc = "DeviceAPIError"
                  /\ pc' = "L137"
                  /\ UNCHANGED <<auth_token, exit_code, uncaught>>
               \/ /\ r.exc = "KeyError"
                  /\ Crash("KeyError")
                  /\ UNCHANGED auth_token
    /\ UNCHANGED <<challenge, token, message, requests, angles, errors,
                   interrupted, dispatched, delays>>

\* authenticate starting over after a failure
AuthFailLog_retry ==
    /\ pc = "L137"
    /\ errors' = Append(errors, "Authentication failed")
    /\ pc' = "L130"
    /\ UNCHANGED <<auth_token, challenge, token, message, requests, angles,
                   exit_code, uncaught, interrupted, replies, dispatched, delays>>

\* except DeviceAPIError in authenticate: logger.error, return False
AuthFailLog ==
    /\ pc = "L137"
    /\ errors' = Append(errors, "Authentication failed")
    /\ pc' = "L156"
    /\ UNCHANGED <<auth_token, challenge, token, message, requests, angles,
                   exit_code, uncaught, interrupted, replies, dispatched, delays>>

\* run: logger.error("Initial authentication failed")
InitFailLog ==
    /\ pc = "L156"
    /\ errors' = Append(errors, "Initial authentication failed")
    /\ pc' = "L157"
    /\ UNCHANGED <<auth_token, challenge, token, message, requests, angles,
                   exit_code, uncaught, interrupted, replies, dispatched, delays>>

\* run: sys.exit(1) after the failed authentication
InitFailExit ==
    /\ pc = "L157"
    /\ exit_code' = <<1>>
    /\ pc' = "done"
    /\ UNCHANGED <<auth_token, challenge, token, message, requests, angles, errors,
                   uncaught, interrupted, replies, dispatched, delays>>

\* top of the loop: the guard, then poll_channel sends its request
PollSend ==
    /\ pc = "L164"
    /\ \/ /\ SessionMissing(auth_token)
          /\ pc' = "L178"
          /\ UNCHANGED requests
       \/ /\ ~SessionMissing(auth_token)
          /\ Len(Polls) < MaxPolls
          /\ requests' = Append(requests,
                 Request("poll", <<>>, auth_token.token, auth_token.channel_id, <<POLL_TIMEOUT>>))
          /\ pc' = "L167w"
    /\ UNCHANGED <<auth_token, challenge, token, message, angles, errors,
                   exit_code, uncaught, interrupted, replies, dispatched, delays>>

\* poll_channel returns a message or None, or raises DeviceAPIError
PollRecv ==
    /\ pc = "L167w"
    /\ \E o \in Transport(Messages, <<POLL_TIMEOUT>>) :
        LET r == PollChannel(o)
        IN  /\ replies' = Append(replies, [op |-> "poll", reply |-> o])
            /\ \/ /\ r.exc = None
                  /\ message' = r.value
                  /\ pc' = "L172"
               \/ /\ r.exc = "DeviceAPIError"
                  /\ pc' = "L178"
                  /\ UNCHANGED message
    /\ UNCHANGED <<auth_token, challenge, token, requests, angles, errors,
                   exit_code, uncaught, interrupted, dispatched, delays>>

\* the loop going back to the poll right after a dispatched message
Dispatch_noDelay ==
    /\ pc = "L172"
    /\ \/ /\ Truthy(message)
          /\ dispatched' = Append(dispatched, message)
          /\ angles' = angles \o HandleAction(message).angles
          /\ errors' = errors \o HandleAction(message).errors
          /\ pc' = "L164"
       \/ /\ ~Truthy(message)
          /\ UNCHANGED <<dispatched, angles, errors>>
          /\ pc' = "L175"
    /\ UNCHANGED <<auth_token, challenge, token, message, requests,
                   exit_code, uncaught, interrupted, replies, delays>>

\* if message: handle_action(message)
Dispatch ==
    /\ pc = "L172"
    /\ \/ /\ Truthy(message)
          /\ dispatched' = Append(dispatched, message)
          /\ angles' = angles \o HandleAction(message).angles
          /\ errors' = errors \o HandleAction(message).errors
       \/ /\ ~Truthy(message)
          /\ UNCHANGED <<dispatched, angles, errors>>
    /\ pc' = "L175"
    /\ UNCHANGED <<auth_token, challenge, token, message, requests,
                   exit_code, uncaught, interrupted, replies, delays>>

\* time.sleep(Config.RETRY_DELAY) returns
Sleep ==
    /\ pc = "L175"
    /\ delays' = delays + RETRY_DELAY
    /\ pc' = "L164"
    /\ UNCHANGED <<auth_token, challenge, token, message, requests, angles, errors,
                   exit_code, uncaught, interrupted, replies, dispatched>>

\* the loop's handler going back to the top of the loop
FatalLog_retry ==
    /\ pc = "L178"
    /\ errors' = Append(errors, "Fatal error")
    /\ pc' = "L164"
    /\ UNCHANGED <<auth_token, challenge, token, message, requests, angles,
                   exit_code, uncaught, interrupted, replies, dispatched, delays>>

\* except DeviceAPIError in run: logger.error
FatalLog ==
    /\ pc = "L178"
    /\ errors' = Append(errors, "Fatal error")
    /\ pc' = "L179"
    /\ UNCHANGED <<auth_token, challenge, token, message, requests, angles,
                   exit_code, uncaught, interrupted, replies, dispatched, delays>>

\* run: sys.exit(1) in the loop's handler
FatalExit ==
    /\ pc = "L179"
    /\ exit_code' = <<1>>
    /\ pc' = "done"
    /\ UNCHANGED <<auth_token, challenge, token, message, requests, angles, errors,
                   uncaught, interrupted, replies, dispatched, delays>>

\* the handler reporting the interrupt as an error and exiting with 1
InterruptHandler_asError == [errors |-> <<"Fatal error">>, code |-> 1]

\* what main's KeyboardInterrupt handler does: logger.info, sys.exit(0)
InterruptHandler == [errors |-> <<>>, code |-> 0]

\* the interrupt handled even after the process has exited
Interrupt_afterExit ==
    /\ interrupted' = TRUE
    /\ errors' = errors \o InterruptHandler.errors
    /\ exit_code' = <<InterruptHandler.code>>
    /\ pc' = "done"
    /\ UNCHANGED <<auth_token, challenge, token, message, requests, angles,
                   uncaught, replies, dispatched, delays>>

\* KeyboardInterrupt raised at the current line; nothing below main
\* catches it
Interrupt ==
    /\ pc # "done"
    /\ interrupted' = TRUE
    /\ errors' = errors \o InterruptHandler.errors
    /\ exit_code' = <<InterruptHandler.code>>
    /\ pc' = "done"
    /\ UNCHANGED <<auth_token, challenge, token, message, requests, angles,
                   uncaught, replies, dispatched, delays>>

Next ==
    \/ GetChallengeSend
    \/ GetChallengeRecv
    \/ SubmitSend
    \/ SubmitRecv
    \/ BindSend
    \/ BindRecv
    \/ AuthFailLog
    \/ InitFailLog
    \/ InitFailExit
    \/ PollSend
    \/ PollRecv
    \/ Dispatch
    \/ Sleep
    \/ FatalLog
    \/ FatalExit
    \/ Interrupt

Spec == Init /\ [][Next]_vars

(* ------------------------ supervisor states ---------------------------- *)
\* the state of the session supervisor the thread is in
State ==
    IF pc = "done" THEN "TERMINATED"
    ELSE IF pc = "L130" THEN "UNAUTHENTICATED"
    ELSE IF pc \in {"L130w", "L131", "L131w", "L132", "L132w", "L137", "L156", "L157",
                     "L130h", "L131h", "L132h"}
    THEN "AUTHENTICATING"
    ELSE "POLLING"

FatalReports == SelectSeq(errors, LAMBDA m : m # "Unknown action received")

TypeOK ==
    /\ pc \in {"L130", "L130w", "L131", "L131w", "L132", "L132w", "L137", "L156",
               "L157", "L164", "L167w", "L172", "L175", "L178", "L179", "done",
               "L130h", "L131h", "L132h", "L167h"}
    /\ exit_code \in {<<>>, <<0>>, <<1>>}
    /\ interrupted \in BOOLEAN
    /\ Len(replies) <= Len(requests)
(* ------------------------- derived history ----------------------------- *)
\* the outcome of the most recent poll
LastPoll == PollReplies[Len(PollReplies)].reply

PollAnswered == Len(PollReplies) > 0

\* the requests of the handshake, in the order sent
HandshakeRequests == SelectSeq(requests, LAMBDA r : r.op # "poll")

HandshakeOrder == <<"challenge", "respond", "bind">>

\* session.request failed or answered with a status other than 200
Rejected(o) == o.kind \in {"connerror", "timeout"} \/ (o.kind = "response" /\ o.status # 200)

\* some handshake request was rejected
HandshakeFailed == \E i \in 1..Len(replies) : replies[i].op # "poll" /\ Rejected(replies[i].reply)

\* the process ended through sys.exit in run, not through an interrupt
\* and not through an uncaught exception
ExitedByRun == pc = "done" /\ ~interrupted /\ uncaught = None

(* ------------------------------ C1 ------------------------------------- *)
Poll401 == PollAnswered /\ LastPoll.kind = "response" /\ LastPoll.status = 401

PollFatalOther ==
    /\ PollAnswered
    /\ \/ LastPoll.kind = "connerror"
       \/ LastPoll.kind = "response" /\ LastPoll.status \notin {200, 401, 403}

\* C2: a poll that fails by transport failure or with a status other than
\* 200, 401 and 403 enters the loop's handler: "Fatal error" is reported,
\* the process exits with code 1 unless an interrupt arrives first, and from
\* the failure on no request is sent and set_angle is not called.
C2_PollFailureIsFatal ==
    /\ [](PollFatalOther =>
            /\ pc \in {"L178", "L179", "done"}
            /\ Len(Polls) = Len(PollReplies)
            /\ (pc = "L179" \/ ExitedByRun) => errors[Len(errors)] = "Fatal error"
            /\ ExitedByRun => exit_code = <<1>>)
    /\ [][PollFatalOther' => (requests' = requests /\ angles' = angles)]_vars

C2_Witness ==
    /\ PollFatalOther /\ LastPoll.status = 500 /\ ExitedByRun /\ exit_code = <<1>>
    /\ Len(Polls) = 2

(* ------------------------------ C3 ------------------------------------- *)
\* C3: a timeout raised inside a handshake request would leave it as the
\* same DeviceAPIError as a transport failure; once a handshake request has
\* failed (transport failure or non-200 status) the failing request is the
\* last request ever sent, the requests
\* sent are a prefix of challenge, respond, bind with no repetition, the
\* session is absent, no poll was sent and set_angle was not called; the
\* failure is reported and the process exits with code 1 unless an interrupt
\* arrives first.
C3_HandshakeFailureIsFatal ==
    /\ Subscript(TimedOut).exc = Subscript(ConnError).exc
    /\ Subscript(ConnError).exc = "DeviceAPIError"
    /\ HandshakeFailed =>
        /\ pc \in {"L137", "L156", "L157", "done"}
        /\ Len(requests) = Len(replies)
        /\ Rejected(replies[Len(replies)].reply)
        /\ Len(requests) <= 3
        /\ \A i \in 1..Len(requests) : requests[i].op = HandshakeOrder[i]
        /\ ~auth_token.present
        /\ angles = <<>>
        /\ ExitedByRun =>
              /\ exit_code = <<1>>
              /\ errors = <<"Authentication failed", "Initial authentication failed">>

C3_Witness ==
    /\ HandshakeFailed /\ ExitedByRun /\ exit_code = <<1>>
    /\ Len(requests) = 2

(* ------------------------------ C4 ------------------------------------- *)
\* C4: every poll request that is sent carries a token and a channel id
\* that are both set (neither None nor empty).
C4_PollsCarrySession ==
    \A i \in 1..Len(requests) :
        requests[i].op = "poll" => (Truthy(requests[i].token) /\ Truthy(requests[i].channelId))

(* ------------------------------ C5 ------------------------------------- *)
\* C5: auth_token is absent, or both its token and its channel id are set.
C5_SessionNeverPartial ==
    auth_token.present => (Truthy(auth_token.token) /\ Truthy(auth_token.channel_id))

(* ------------------------------ C6 ------------------------------------- *)
LastTimeout == PollAnswered /\ LastPoll.kind = "timeout"

\* C6: a poll that timed out returns None: nothing is dispatched, set_angle
\* is not called, no fatal error is reported and the process does not exit;
\* unless interrupted the thread goes on through the pacing delay to the
\* next poll request, which carries the token and channel id of the poll
\* that timed out.
C6_TimeoutIsNoCommand ==
    /\ [](LastTimeout =>
            /\ message = None
            /\ FatalReports = <<>>
            /\ uncaught = None
            /\ ~interrupted => (State = "POLLING" /\ exit_code = <<>>
                                /\ pc \in {"L172", "L175", "L164", "L167w"}))
    /\ [][LastTimeout' => (angles' = angles /\ dispatched' = dispatched)]_vars
    /\ [][(LastTimeout /\ ~interrupted') =>
            /\ pc = "L172" => pc' = "L175"
            /\ pc = "L175" => (pc' = "L164" /\ delays' = delays + RETRY_DELAY)
            /\ pc = "L164" => (pc' = "L167w" /\ Polls' = Append(Polls, Polls[Len(Polls)]))]_vars

C6_Witness ==
    /\ Len(PollReplies) = 2
    /\ PollReplies[1].reply.kind = "timeout"
    /\ PollReplies[2].reply.kind = "timeout"
    /\ pc = "L167w"
    /\ Len(Polls) = 3
    /\ delays = 2 * RETRY_DELAY

(* ------------------------------ C7 ------------------------------------- *)
\* C7: an interrupt can be delivered at every line the thread can be at,
\* and the step that delivers it ends the process with exit code 0, emits no
\* error report, sends nothing and moves nothing.
C7_InterruptExitsZero ==
    /\ [](pc # "done" => ENABLED Interrupt)
    /\ [][(interrupted' /\ ~interrupted) =>
            /\ pc' = "done"
            /\ exit_code' = <<0>>
            /\ errors' = errors
            /\ uncaught' = None
            /\ requests' = requests
            /\ angles' = angles]_vars

C7_Witness ==
    /\ interrupted /\ pc = "done" /\ exit_code = <<0>>
    /\ Len(Polls) > Len(PollReplies)
    /\ errors = <<>>

(* ------------------------------ C8 ------------------------------------- *)
ExpectedAngles(c) == IF c = "open" THEN <<180>> ELSE IF c = "close" THEN <<0>> ELSE <<>>

\* C8: handle_action calls set_angle(180) once for "open", set_angle(0) once
\* for "close" and does not call it for any other string; when run
\* dispatches a message exactly these calls are made, no exception leaves
\* and the thread goes on to the pacing delay; set_angle is called from
\* nowhere else.
C8_DispatchAngles ==
    /\ [](/\ HandleAction("open").angles = <<180>>
          /\ HandleAction("close").angles = <<0>>
          /\ \A c \in {"jump", "OPEN", ""} : HandleAction(c).angles = <<>>)
    /\ [][dispatched' # dispatched =>
            /\ angles' = angles \o ExpectedAngles(dispatched'[Len(dispatched')])
            /\ pc' = "L175"
            /\ exit_code' = <<>>
            /\ uncaught' = None]_vars
    /\ [][angles' # angles => dispatched' # dispatched]_vars

C8_Witness ==
    /\ dispatched = <<"open", "jump", "close">>
    /\ angles = <<180, 0>>
    /\ pc = "L175"

(* ------------------------------ C9 ------------------------------------- *)
HasMessage == LastPoll.kind = "response" /\ LastPoll.status = 200 /\ LastPoll.has

\* C9 as stated: after a 200 reply with a message field the poll returned
\* that value and the dispatcher is invoked with it; after a 200 reply
\* without the field the poll returned None and nothing is dispatched.
C9_EveryMessageDispatched ==
    [][(pc = "L172" /\ pc' = "L175") =>
          IF HasMessage
          THEN message = LastPoll.value /\ dispatched' = Append(dispatched, LastPoll.value)
          ELSE message = None /\ dispatched' = dispatched]_vars

\* C9 amended: the poll returns the value of the message field, or None when
\* the field is absent; the dispatcher is invoked once with the returned
\* value, before the pacing delay, when that value is a non-empty string,
\* and is not invoked in that cycle when the field is absent, null or empty.
C9_NonEmptyMessageDispatched ==
    /\ [][(pc = "L172" /\ pc' = "L175") =>
            /\ message = (IF HasMessage THEN LastPoll.value ELSE None)
            /\ IF HasMessage /\ Truthy(LastPoll.value)
               THEN dispatched' = Append(dispatched, LastPoll.value)
               ELSE dispatched' = dispatched]_vars
    /\ [][dispatched' # dispatched => (pc = "L172" /\ pc' = "L175")]_vars

C9_Witness ==
    /\ Len(PollReplies) = 2
    /\ PollReplies[1].reply.has /\ PollReplies[1].reply.value = "open"
    /\ PollReplies[2].reply.has /\ PollReplies[2].reply.value = ""
    /\ pc = "L175"
    /\ dispatched = <<"open">>

(* ------------------------------ C10 ------------------------------------ *)
Accepted(o) == o.kind = "response" /\ o.status = 200 /\ o.has

\* C10: the handshake requests are sent in the order challenge, respond,
\* bind, each once and before any poll; the bind request carries the token
\* of the respond reply; the session exists exactly when all three replies
\* were accepted and is then the token of the respond reply with the channel
\* id of the bind reply, and every poll request carries that pair.
C10_HandshakeOrder ==
    /\ Len(HandshakeRequests) <= 3
    /\ \A i \in 1..Len(HandshakeRequests) : HandshakeRequests[i].op = HandshakeOrder[i]
    /\ \A i \in 1..Len(requests) : requests[i].op = "poll" => i > 3
    /\ Len(requests) >= 3 => requests[3].token = replies[2].reply.value
    /\ auth_token.present <=>
          (Len(replies) >= 3 /\ \A i \in 1..3 : Accepted(replies[i].reply))
    /\ auth_token.present =>
          /\ auth_token.token = replies[2].reply.value
          /\ auth_token.channel_id = replies[3].reply.value
    /\ \A i \in 1..Len(Polls) :
          /\ Polls[i].token = replies[2].reply.value
          /\ Polls[i].channelId = replies[3].reply.value

C10_Witness ==
    /\ auth_token.present /\ auth_token.token = "T1" /\ auth_token.channel_id = "CH1"
    /\ Len(Polls) = 2
    /\ Polls[2].token = "T1" /\ Polls[2].channelId = "CH1"

(* ------------------------------ C11 ------------------------------------ *)
\* C11: at most one respond request is ever sent, it is the second request,
\* it carries the serial of the challenge request and, as challengeResponse,
\* the hex HMAC-SHA256 digest keyed with the device secret over the challenge
\* that the challenge request of this handshake returned; once the thread is
\* past submit_challenge_response the request has been sent.
C11_ResponseSignsChallenge ==
    /\ Len(SelectSeq(requests, LAMBDA r : r.op = "respond")) <= 1
    /\ \A i \in 1..Len(requests) :
          requests[i].op = "respond" =>
              /\ i = 2
              /\ Accepted(replies[1].reply)
              /\ requests[i].challengeResponse =
                     <<"hmac-sha256-hex", "secretkey", replies[1].reply.value>>
              /\ requests[i].serial = requests[1].serial
              /\ requests[i].serial = "sunshade-01"
    /\ pc \in {"L131w", "L132", "L132w", "L164", "L167w", "L172", "L175", "L178", "L179"}
          => Len(requests) >= 2 /\ requests[2].op = "respond"

C11_Witness ==
    /\ Len(requests) >= 3
    /\ replies[1].reply.value = "abc123"
    /\ requests[2].challengeResponse = <<"hmac-sha256-hex", "secretkey", "abc123">>

(* ------------------------------ C12 ------------------------------------ *)
\* a handshake request was answered 200 with the expected field missing
FieldMissing ==
    \E i \in 1..Len(replies) :
        /\ replies[i].op # "poll"
        /\ replies[i].reply.kind = "response"
        /\ replies[i].reply.status = 200
        /\ ~replies[i].reply.has

\* C12: a 200 reply without the expected field makes authenticate fail like
\* any other authentication failure: the failure is reported by authenticate
\* and by run, no exception leaves main, and the process exits with code 1
\* unless an interrupt arrives first.
C12_MissingFieldIsAuthFailure ==
    FieldMissing =>
        /\ uncaught = None
        /\ pc \in {"L137", "L156", "L157", "done"}
        /\ (pc = "done" /\ ~interrupted) =>
              /\ exit_code = <<1>>
              /\ errors = <<"Authentication failed", "Initial authentication failed">>

(* ------------------------------ C13 ------------------------------------ *)
\* C13: at most one poll is unanswered at any time; set_angle is called only
\* between the return of a poll, with that poll's message, and the pacing
\* delay of the same cycle; and when the n-th poll request is sent exactly
\* n-1 pacing delays have elapsed, whatever the earlier polls returned.
C13_SequentialAndPaced ==
    /\ [](Len(Polls) - Len(PollReplies) \in {0, 1})
    /\ [](pc = "L167w" => Len(Polls) = Len(PollReplies) + 1)
    /\ [](Len(Polls) > Len(PollReplies) => (pc = "L167w" \/ interrupted))
    /\ [][angles' # angles =>
            /\ pc = "L172" /\ pc' = "L175"
            /\ Len(Polls) = Len(PollReplies)
            /\ LastPoll.has /\ message = LastPoll.value
            /\ delays = (Len(Polls) - 1) * RETRY_DELAY
            /\ delays' = delays]_vars
    /\ [][Len(Polls') > Len(Polls) =>
            /\ Len(Polls') = Len(Polls) + 1
            /\ delays = Len(Polls) * RETRY_DELAY
            /\ delays' = delays]_vars

C13_Witness ==
    /\ Len(Polls) = 3
    /\ pc = "L167w"
    /\ delays = 2 * RETRY_DELAY
    /\ PollReplies[1].reply.value = "open"
    /\ PollReplies[2].reply.kind = "timeout"
    /\ angles = <<180>>

(* ------------------------------ C14 ------------------------------------ *)
\* C14: the supervisor is TERMINATED exactly when an exit code has been
\* decided, and from then on it stays TERMINATED, sends no request, does not
\* call set_angle and keeps its exit code.
C14_TerminatedAbsorbing ==
    /\ [](State = "TERMINATED" <=> exit_code # <<>>)
    /\ [][State = "TERMINATED" =>
            /\ State' = "TERMINATED"
            /\ requests' = requests
            /\ angles' = angles
            /\ exit_code' = exit_code]_vars

C14_Witness ==
    /\ State = "TERMINATED" /\ exit_code = <<1>>
    /\ Len(Polls) = 2
    /\ angles = <<180>>

(* ------------------------------ C15 ------------------------------------ *)
\* C15: a run that run ended with sys.exit(1) has emitted exactly one
\* error-level report of the failure.
C15_OneDiagnostic ==
    (ExitedByRun /\ exit_code = <<1>>) => Len(FatalReports) = 1

(* ------------------------------ C16 ------------------------------------ *)
BindRejected ==
    /\ Len(replies) >= 3
    /\ replies[3].op = "bind"
    /\ replies[3].reply.kind = "response"
    /\ replies[3].reply.status # 200

C17_ExitAgreesWithReports ==
    pc = "done" =>
        /\ exit_code = <<1>> => (FatalReports # <<>> \/ uncaught # None)
        /\ exit_code = <<0>> => (interrupted /\ FatalReports = <<>>)

(* ------------- the program over runs of unbounded length --------------- *)
(* The same program with the history variables kept to the current poll    *)
(* cycle, so that the loop can be followed without a bound on the number   *)
(* of polls: requests and replies keep the handshake and the latest poll,  *)
(* dispatched, angles and errors keep the latest cycle, delays the latest  *)
(* pacing delay.  A pc ending in "h" is a request that the server never    *)
(* answers and that was sent without a timeout: session.request does not   *)
(* return.                                                                 *)

HandshakeReplies == SelectSeq(replies, LAMBDA r : r.op # "poll")

\* the server never answers the request in flight; only a request sent
\* without timeout= waits for it without bound
NeverAnswered ==
    /\ pc \in {"L130w", "L131w", "L132w", "L167w"}
    /\ requests[Len(requests)].timeout = NoTimeout
    /\ pc' = (IF pc = "L130w" THEN "L130h" ELSE IF pc = "L131w" THEN "L131h"
              ELSE IF pc = "L132w" THEN "L132h" ELSE "L167h")
    /\ UNCHANGED <<auth_token, challenge, token, message, requests, angles, errors,
                   exit_code, uncaught, interrupted, replies, dispatched, delays>>

\* top of the loop: the guard, then poll_channel sends its request
PollSendLive ==
    /\ pc = "L164"
    /\ \/ /\ SessionMissing(auth_token)
          /\ pc' = "L178"
          /\ UNCHANGED <<requests, replies>>
       \/ /\ ~SessionMissing(auth_token)
          /\ requests' = Append(HandshakeRequests,
                 Request("poll", <<>>, auth_token.token, auth_token.channel_id, <<POLL_TIMEOUT>>))
          /\ replies' = HandshakeReplies
          /\ pc' = "L167w"
    /\ UNCHANGED <<auth_token, challenge, token, message, angles, errors,
                   exit_code, uncaught, interrupted, dispatched, delays>>

\* poll_channel returns a message or None, or raises DeviceAPIError
PollRecvLive ==
    /\ pc = "L167w"
    /\ \E o \in Transport(Messages, requests[Len(requests)].timeout) :
        LET r == PollChannel(o)
        IN  /\ replies' = Append(HandshakeReplies, [op |-> "poll", reply |-> o])
            /\ \/ /\ r.exc = None
                  /\ message' = r.value
                  /\ pc' = "L172"
               \/ /\ r.exc = "DeviceAPIError"
                  /\ pc' = "L178"
                  /\ UNCHANGED message
    /\ UNCHANGED <<auth_token, challenge, token, requests, angles, errors,
                   exit_code, uncaught, interrupted, dispatched, delays>>

\* handle_action letting the ValueError of an unknown action reach run's
\* handler
DispatchLive_unknownFatal ==
    /\ pc = "L172"
    /\ \/ /\ Truthy(message)
          /\ dispatched' = <<message>>
          /\ angles' = HandleAction(message).angles
          /\ errors' = HandleAction(message).errors
          /\ pc' = (IF HandleAction(message).errors # <<>> THEN "L178" ELSE "L175")
       \/ /\ ~Truthy(message)
          /\ dispatched' = <<>>
          /\ angles' = <<>>
          /\ errors' = <<>>
          /\ pc' = "L175"
    /\ UNCHANGED <<auth_token, challenge, token, message, requests,
                   exit_code, uncaught, interrupted, replies, delays>>

\* if message: handle_action(message)
DispatchLive ==
    /\ pc = "L172"
    /\ \/ /\ Truthy(message)
          /\ dispatched' = <<message>>
          /\ angles' = HandleAction(message).angles
          /\ errors' = HandleAction(message).errors
       \/ /\ ~Truthy(message)
          /\ dispatched' = <<>>
          /\ angles' = <<>>
          /\ errors' = <<>>
    /\ pc' = "L175"
    /\ UNCHANGED <<auth_token, challenge, token, message, requests,
                   exit_code, uncaught, interrupted, replies, delays>>

\* time.sleep(Config.RETRY_DELAY) returns
SleepLive ==
    /\ pc = "L175"
    /\ delays' = RETRY_DELAY
    /\ pc' = "L164"
    /\ UNCHANGED <<auth_token, challenge, token, message, requests, angles, errors,
                   exit_code, uncaught, interrupted, replies, dispatched>>

\* the steps of the thread: it runs whenever it can, and session.request
\* returns once the server has answered or the timeout has passed
LiveThread ==
    \/ GetChallengeSend
    \/ GetChallengeRecv
    \/ SubmitSend
    \/ SubmitRecv
    \/ BindSend
    \/ BindRecv
    \/ AuthFailLog
    \/ InitFailLog
    \/ InitFailExit
    \/ PollSendLive
    \/ PollRecvLive
    \/ DispatchLive
    \/ SleepLive
    \/ FatalLog
    \/ FatalExit

LiveNext ==
    \/ LiveThread
    \/ NeverAnswered
    \/ Interrupt

LiveSpec == Init /\ [][LiveNext]_vars /\ WF_vars(LiveThread)

(* ------------------------------ C18 ------------------------------------ *)
\* the latest poll failed by transport failure or non-200 status
PollFailed ==
    /\ PollAnswered
    /\ \/ LastPoll.kind = "connerror"
       \/ LastPoll.kind = "response" /\ LastPoll.status # 200

\* C18: in a run that reaches its first poll, is never interrupted and in
\* which no poll fails (every poll times out or is answered 200, with a
\* valid command, an unknown command, an empty message or none), a poll
\* request is sent again and again and the process never terminates.
C18_PollsForever ==
    ([](~interrupted /\ ~PollFailed) /\ <>(pc = "L167w")) =>
        ([]<><<pc' = "L167w">>_vars /\ [](pc # "done"))

C18_Witness ==
    /\ pc = "L167w"
    /\ dispatched = <<"jump">>
    /\ errors = <<"Unknown action received">>
    /\ delays = RETRY_DELAY

(* ------------------------------ C19 ------------------------------------ *)
\* C19: without an interrupt the handshake started at startup finishes (the
\* supervisor reaches POLLING or TERMINATED) and every poll request in
\* flight returns.
C19_RequestsBounded ==
    ([]~interrupted) =>
        /\ <>(State \in {"POLLING", "TERMINATED"})
        /\ [](pc = "L167w" => <>(pc # "L167w"))

====
